---- MODULE Spec2Model ----
(***************************************************************************)
(* A model of bandeco.py: the resolution of a day expression to a date,    *)
(* the week bucket and the cache key, the parsing of the remote response,  *)
(* the pickle cache and the orchestration done by main().                  *)
(*                                                                         *)
(* Dates are proleptic Gregorian ordinals, as datetime.date.toordinal():   *)
(* 1 is 1 January of year 1, a Monday.  Weekdays are numbered as           *)
(* date.weekday(): Monday is 0 and Sunday is 6.                            *)
(***************************************************************************)
EXTENDS Integers, Sequences, FiniteSets, TLC

VARIABLES
  today,     \* datetime.date.today()
  week,      \* the bucket get_week gave for today (week specification)
  dateArg,   \* the day text last given to get_date (date specification)
  dateOut,   \* what get_date gave for it
  cache,     \* the files of ~/.cache/bandeco, by cache key
  run,       \* the invocation of main() of each process
  started,   \* the number of invocations started
  response,  \* the remote response last parsed (fetch specification)
  fetchOut,  \* what fetch_entries_http gave for it
  called,    \* history: the (week, restaurant) remote calls were made for
  stores     \* history: per (week, restaurant), the entries passed to the
             \* stores begun and to the store that completed last

vars == <<today, week, dateArg, dateOut, cache, run, started, response,
          fetchOut, called, stores>>

----------------------------------------------------------------------------
(* Bounds                                                                  *)

FirstYear == 2022      \* the date specifications cover NumYears years
NumYears == 4
MaxTicks == 3          \* days that pass in the specifications of main()
MaxRuns == 2           \* invocations of main()
MaxRestaurant == 2     \* restaurant codes 1..MaxRestaurant are requested
MaxRecords == 2        \* records of a remote response given to main()
MaxFetchRecords == 3   \* records of a response (fetch specification)
NumProcs == 2          \* processes running main() concurrently

----------------------------------------------------------------------------
(* datetime.date arithmetic                                                *)

IsLeap(y) == (y % 4 = 0) /\ ((y % 100 # 0) \/ (y % 400 = 0))

DaysInYear(y) == IF IsLeap(y) THEN 366 ELSE 365

\* number of days before 1 January of year y
DaysBeforeYear(y) ==
  (y - 1) * 365 + ((y - 1) \div 4) - ((y - 1) \div 100) + ((y - 1) \div 400)

DaysInMonth(y, m) ==
  CASE m = 2 -> IF IsLeap(y) THEN 29 ELSE 28
    [] m \in {4, 6, 9, 11} -> 30
    [] OTHER -> 31

RECURSIVE DaysBeforeMonth(_, _)
DaysBeforeMonth(y, m) ==
  IF m <= 1 THEN 0 ELSE DaysBeforeMonth(y, m - 1) + DaysInMonth(y, m - 1)

\* datetime.date(y, m, d).toordinal()
Ymd2Ord(y, m, d) == DaysBeforeYear(y) + DaysBeforeMonth(y, m) + d

\* date.year
YearOf(n) ==
  LET y0 == (((n - 1) * 400) \div 146097) + 1
  IN  IF n > DaysBeforeYear(y0 + 1) THEN y0 + 1
      ELSE IF n <= DaysBeforeYear(y0) THEN y0 - 1
      ELSE y0

\* tm_yday - 1: the 0-based day of the year
YDay0(n) == n - DaysBeforeYear(YearOf(n)) - 1

\* date.month
MonthOf(n) ==
  LET y == YearOf(n)
      j == YDay0(n)
  IN  CHOOSE m \in 1..12 :
        /\ DaysBeforeMonth(y, m) <= j
        /\ j < DaysBeforeMonth(y, m) + DaysInMonth(y, m)

\* date.day
DayOf(n) == YDay0(n) - DaysBeforeMonth(YearOf(n), MonthOf(n)) + 1

\* date.weekday(): Monday is 0
Weekday(n) == (n + 6) % 7

\* strftime("%W"): week of the year, weeks starting on Monday, the days
\* before the first Monday being week 0
StrftimeW(n) == (YDay0(n) + 7 - Weekday(n)) \div 7

\* strftime("%d/%m/%Y"): the three fields of the text
StrftimeDmY(n) == <<DayOf(n), MonthOf(n), YearOf(n)>>

----------------------------------------------------------------------------
(* get_week, cache_key, is_current_week                                    *)

\* strftime("%Yw%W"): the text "<year>w<week>" as its two fields
StrftimeYwW(n) == <<YearOf(n), StrftimeW(n)>>

\* get_week without the re-bucketing of week 00
get_week_NoRebucket(date) == StrftimeYwW(date)

get_week(date) ==
  LET w == StrftimeYwW(date)
  IN  IF w[2] = 0
        THEN StrftimeYwW(Ymd2Ord(YearOf(date) - 1, 12, 31))
        ELSE w

\* cache_key that buckets by the day of the year instead of the week
cache_key_PerDay(date, restaurant) == <<YearOf(date), YDay0(date), restaurant>>

\* f"{get_week(date)}r{restaurant:02}" as its fields
cache_key(date, restaurant) == <<get_week(date)[1], get_week(date)[2], restaurant>>

\* is_current_week that answers True for every date
is_current_week_Always(date, now) == TRUE

\* now is the value of datetime.date.today() at the call
is_current_week(date, now) == get_week(date) = get_week(now)

----------------------------------------------------------------------------
(* get_date                                                                *)

\* The day texts of the model.  A text is either a word or a numeric date
\* "d/m", "d/m/yy" or "d/m/yyyy"; yd is the number of digits of the year
\* field (0 when the field is absent).
WordArg(t) == [text |-> t, d |-> 0, m |-> 0, y |-> 0, yd |-> 0]
NumArg(d, m, y, yd) == [text |-> "", d |-> d, m |-> m, y |-> y, yd |-> yd]

\* locale weekday names, lower case, in date.weekday() order
AbbrNames == <<"mon", "tue", "wed", "thu", "fri", "sat", "sun">>
FullNames == <<"monday", "tuesday", "wednesday", "thursday", "friday",
               "saturday", "sunday">>

\* str.lower() on the words of the model
Lower(t) ==
  CASE t \in {"Today", "TODAY"} -> "today"
    [] t \in {"Tomorrow", "TOMORROW"} -> "tomorrow"
    [] t \in {"Yesterday", "YESTERDAY"} -> "yesterday"
    [] t \in {"Mon", "MON"} -> "mon"
    [] t = "Tue" -> "tue"
    [] t = "Wed" -> "wed"
    [] t = "Thu" -> "thu"
    [] t \in {"Fri", "FRI"} -> "fri"
    [] t = "Sat" -> "sat"
    [] t \in {"Sun", "SUN"} -> "sun"
    [] t \in {"Monday", "MONDAY"} -> "monday"
    [] t = "Tuesday" -> "tuesday"
    [] t = "Wednesday" -> "wednesday"
    [] t = "Thursday" -> "thursday"
    [] t \in {"Friday", "FRIDAY"} -> "friday"
    [] t = "Saturday" -> "saturday"
    [] t \in {"Sunday", "SUNDAY"} -> "sunday"
    [] OTHER -> t

Keywords == {"today", "tomorrow", "yesterday"}

\* A parsed date, and the absence of one: parse_with_format returning None,
\* get_date raising ValueError
Some(n) == [ok |-> TRUE, v |-> n]
NoDate == [ok |-> FALSE, v |-> 0]

\* _strptime._calc_julian_from_U_or_W with weeks starting on Monday
CalcJulianFromW(year, week_of_year, day_of_week) ==
  LET first_weekday == Weekday(Ymd2Ord(year, 1, 1))
      week_0_length == (7 - first_weekday) % 7
  IN  IF week_of_year = 0
        THEN 1 + day_of_week - first_weekday
        ELSE 1 + week_0_length + 7 * (week_of_year - 1) + day_of_week

\* strptime of "<weekday>|<%W> <%Y>": the date of that weekday in week
\* week_of_year of year; a julian day <= 0 belongs to the previous year
StrptimeWeekday(day_of_week, week_of_year, year) ==
  LET julian == CalcJulianFromW(year, week_of_year, day_of_week)
      y == IF julian <= 0 THEN year - 1 ELSE year
      j == IF julian <= 0 THEN julian + DaysInYear(year - 1) ELSE julian
  IN  (j - 1) + Ymd2Ord(y, 1, 1)

\* the index of a name in a tuple of names, 0 when it is not there
IndexIn(names, t) ==
  IF \E i \in 1..Len(names) : names[i] = t
    THEN CHOOSE i \in 1..Len(names) : names[i] = t
    ELSE 0

\* datetime(y, m, d) of parsed fields; ValueError when they are no date
DateOrNone(y, m, d) ==
  IF y >= 1 /\ y <= 9999 /\ m \in 1..12 /\ d >= 1 /\ d <= DaysInMonth(y, m)
    THEN Some(Ymd2Ord(y, m, d))
    ELSE NoDate

\* parse_with_format(day, format, defaults); the weekday names match
\* without regard to case, as strptime compiles its pattern with IGNORECASE
parse_with_format(day, format, now) ==
  CASE format = "%a" ->
         LET i == IndexIn(AbbrNames, Lower(day.text))
         IN  IF day.yd = 0 /\ day.d = 0 /\ i > 0
               THEN Some(StrptimeWeekday(i - 1, StrftimeW(now), YearOf(now)))
               ELSE NoDate
    [] format = "%A" ->
         LET i == IndexIn(FullNames, Lower(day.text))
         IN  IF day.yd = 0 /\ day.d = 0 /\ i > 0
               THEN Some(StrptimeWeekday(i - 1, StrftimeW(now), YearOf(now)))
               ELSE NoDate
    [] format = "%d/%m" ->
         IF day.text = "" /\ day.yd = 0
           THEN DateOrNone(YearOf(now), day.m, day.d)
           ELSE NoDate
    [] format = "%d/%m/%y" ->
         IF day.text = "" /\ day.yd = 2
           THEN DateOrNone(IF day.y < 69 THEN 2000 + day.y ELSE 1900 + day.y,
                           day.m, day.d)
           ELSE NoDate
    [] format = "%d/%m/%Y" ->
         IF day.text = "" /\ day.yd = 4
           THEN DateOrNone(day.y, day.m, day.d)
           ELSE NoDate

formats == <<"%a", "%A", "%d/%m", "%d/%m/%y", "%d/%m/%Y">>

RECURSIVE TryFormats(_, _, _)
TryFormats(day, now, i) ==
  IF i > Len(formats) THEN NoDate
  ELSE LET parsed == parse_with_format(day, formats[i], now)
       IN  IF parsed # NoDate THEN parsed ELSE TryFormats(day, now, i + 1)

\* get_date that resolves a weekday name to its next occurrence, today
\* included, instead of the weekday of today's week
get_date_Upcoming(day, now) ==
  CASE day.text = "today" -> Some(now)
    [] day.text = "tomorrow" -> Some(now + 1)
    [] day.text = "yesterday" -> Some(now - 1)
    [] OTHER ->
         LET r == TryFormats(day, now, 1)
         IN  IF r.ok /\ day.text # ""
               THEN Some(now + ((Weekday(r.v) - Weekday(now) + 7) % 7))
               ELSE r

get_date(day, now) ==
  CASE day.text = "today" -> Some(now)
    [] day.text = "tomorrow" -> Some(now + 1)
    [] day.text = "yesterday" -> Some(now - 1)
    [] OTHER -> TryFormats(day, now, 1)

----------------------------------------------------------------------------
(* fetch_entries_http: the record pattern, sanitise_entry and the dict     *)

\* The remote response is the sequence of its records, each with the four
\* fields cdpdia (menu text), dtarfi (date text, its "\/"-separated fields),
\* tiprfi (meal code) and vlrclorfi (calories, its digits); transport says
\* that requests.post raised instead of returning a response.

\* the characters of the model that \w matches
WordChars == {"A", "J", "X"}

\* tiprfi:"(\w)", matches a field holding exactly one word character
MealMatches(rec) == rec.meal \in WordChars

\* vlrclorfi:(\d+) matches a field starting with at least one digit
CaloriesMatch(rec) == Len(rec.calories) >= 1

MinOf(S) == CHOOSE x \in S : \A y \in S : x <= y

\* re.findall(regex, response.text) from record i on: the menu and the date
\* of the record the match starts in, the first meal code that matches with
\* a matching calorie field at or after it, and the first such calorie field
\* (the non-greedy .*? run over whatever lies between the fields); the
\* search resumes after the last field used
RECURSIVE FindAll(_, _)
FindAll(recs, i) ==
  IF i > Len(recs) THEN <<>>
  ELSE LET J == {j \in i..Len(recs) :
                   /\ MealMatches(recs[j])
                   /\ \E k \in j..Len(recs) : CaloriesMatch(recs[k])}
       IN  IF J = {} THEN <<>>
           ELSE LET j == MinOf(J)
                    k == MinOf({n \in j..Len(recs) : CaloriesMatch(recs[n])})
                IN  << <<recs[i].menu, recs[i].date, recs[j].meal,
                         recs[k].calories>> >> \o FindAll(recs, k + 1)

\* menu.replace("\\/", "/").encode().decode("unicode_escape")
\*     .replace("<br>", "\n").replace("\\", "") on the menu texts of the
\* model; a truncated \x escape makes decode raise UnicodeDecodeError
MenuDecodes(menu) == menu # "caf\\xe"

SanitiseMenu(menu) ==
  CASE menu = "arroz<br>feijao" -> "arroz\nfeijao"
    [] menu = "peixe\\/frango" -> "peixe/frango"
    [] OTHER -> menu

\* int(calories) of a sequence of decimal digits
RECURSIVE IntOf(_)
IntOf(digits) ==
  IF digits = <<>> THEN 0
  ELSE 10 * IntOf(SubSeq(digits, 1, Len(digits) - 1)) + digits[Len(digits)]

\* the meal names of the codes: the dict literal of sanitise_entry
MealCodes == {"A", "J"}
MealName(code) == IF code = "A" THEN "lunch" ELSE "dinner"

\* whether sanitise_entry returns for the tuple (it raises UnicodeDecodeError
\* on the menu or KeyError on the meal code otherwise)
SanitiseOk(entry) == MenuDecodes(entry[1]) /\ entry[3] \in MealCodes

\* sanitise_entry on a tuple it returns for
sanitise_entry(entry) ==
  [menu |-> SanitiseMenu(entry[1]),
   date |-> entry[2],
   meal |-> MealName(entry[3]),
   calories |-> IntOf(entry[4])]

\* entry_to_key_value: the key "<date>-<meal>" as its two parts
entry_to_key_value(entry) ==
  LET value == sanitise_entry(entry)
  IN  [key |-> <<value.date, value.meal>>,
       menu |-> value.menu, calories |-> value.calories]

\* dict(pairs): a dict is the sequence of its items in insertion order; a
\* key already there keeps its place and takes the new value
RECURSIVE DictOf(_)
DictOf(pairs) ==
  IF pairs = <<>> THEN <<>>
  ELSE LET init == DictOf(SubSeq(pairs, 1, Len(pairs) - 1))
           kv == pairs[Len(pairs)]
       IN  IF \E i \in 1..Len(init) : init[i].key = kv.key
             THEN [i \in 1..Len(init) |->
                     IF init[i].key = kv.key THEN kv ELSE init[i]]
             ELSE Append(init, kv)

\* the keys of a dict
KeysOf(entries) == {entries[i].key : i \in 1..Len(entries)}

\* what a call returns: a value, or an exception in its place
Returned(e) == [raised |-> FALSE, entries |-> e]
Raised == [raised |-> TRUE, entries |-> <<>>]

\* fetch_entries_http that skips the records sanitise_entry raises on
fetch_entries_http_Skip(resp) ==
  IF resp.transport THEN Raised
  ELSE LET entries == FindAll(resp.records, 1)
           good == SelectSeq(entries, SanitiseOk)
       IN  Returned(DictOf([i \in 1..Len(good) |-> entry_to_key_value(good[i])]))

\* fetch_entries_http(restaurant) on the response the remote source gives
fetch_entries_http(resp) ==
  IF resp.transport THEN Raised
  ELSE LET entries == FindAll(resp.records, 1)
       IN  IF \E i \in 1..Len(entries) : ~SanitiseOk(entries[i])
             THEN Raised
             ELSE Returned(DictOf([i \in 1..Len(entries) |->
                                     entry_to_key_value(entries[i])]))

----------------------------------------------------------------------------
(* The cache files: open_cache, pickle.dump and pickle.load                *)

\* A file is a sequence of cells.  A pickle is written in chunks, each one
\* cell: the chunk holds up to BufItems items of the dict and the last chunk
\* ends with the STOP opcode.  A hole is a cell that was never written and
\* lies before one that was; junk is content that is no pickle.
BufItems == 1

NoFile == [exists |-> FALSE, cells |-> <<>>]
EmptyFile == [exists |-> TRUE, cells |-> <<>>]
Chunk(items, stop) == [kind |-> "data", items |-> items, stop |-> stop]
Hole == [kind |-> "hole", items |-> <<>>, stop |-> FALSE]
Junk == [kind |-> "junk", items |-> <<>>, stop |-> FALSE]
CorruptFile == [exists |-> TRUE, cells |-> <<Junk>>]

\* the number of chunks of the pickle of a dict
NumChunks(entries) ==
  IF Len(entries) = 0 THEN 1 ELSE (Len(entries) + BufItems - 1) \div BufItems

\* chunk i of pickle.dump(entries, cache)
PickleChunk(entries, i) ==
  LET lo == (i - 1) * BufItems + 1
      hi == IF i * BufItems < Len(entries) THEN i * BufItems ELSE Len(entries)
  IN  Chunk(SubSeq(entries, lo, hi), i = NumChunks(entries))

\* a write of one cell at position i of a file opened for writing
WriteCell(file, i, cell) ==
  [exists |-> TRUE,
   cells |-> [n \in 1..(IF i > Len(file.cells) THEN i ELSE Len(file.cells)) |->
                IF n = i THEN cell
                ELSE IF n <= Len(file.cells) THEN file.cells[n] ELSE Hole]]

\* pickle.load(cache): the dict of the items of the chunks up to the first
\* STOP (an item whose key is already there replaces the value); it raises
\* when the file ends, or holds a hole or junk, before a STOP
RECURSIVE PickleLoad(_, _)
PickleLoad(cells, i) ==
  IF i > Len(cells) \/ cells[i].kind # "data" THEN Raised
  ELSE IF cells[i].stop THEN Returned(cells[i].items)
  ELSE LET rest == PickleLoad(cells, i + 1)
       IN  IF rest.raised THEN Raised
           ELSE Returned(DictOf(cells[i].items \o rest.entries))

\* what fetch_entries_cached returns: the entries, or None
Hit(e) == [hit |-> TRUE, entries |-> e]
Miss == [hit |-> FALSE, entries |-> <<>>]

\* the result of open_cache(key, "rb") and pickle.load on a file, which is
\* an exception when the file does not exist or is no pickle
OpenAndLoad(file) ==
  IF ~file.exists THEN Raised ELSE PickleLoad(file.cells, 1)

\* fetch_entries_cached that catches only the missing file
\* (FileNotFoundError) and lets every other exception out
fetch_entries_cached_Narrow(file) ==
  IF ~file.exists THEN [raised |-> FALSE, res |-> Miss]
  ELSE LET r == OpenAndLoad(file)
       IN  IF r.raised THEN [raised |-> TRUE, res |-> Miss]
           ELSE [raised |-> FALSE, res |-> Hit(r.entries)]

\* fetch_entries_cached(key) on the file of the key: res is what it returns
\* and raised says that it raised instead
fetch_entries_cached(file) ==
  LET r == OpenAndLoad(file)
  IN  IF r.raised THEN [raised |-> FALSE, res |-> Miss]
      ELSE [raised |-> FALSE, res |-> Hit(r.entries)]

\* open_cache(key, "wb"): the file is created or truncated
open_cache_wb(file) == EmptyFile

----------------------------------------------------------------------------
(* main()                                                                  *)

pureVars == <<week, dateArg, dateOut, response, fetchOut>>

\* the Monday of the week of a date
Monday(n) == n - Weekday(n)

\* the first invocation date of the specifications of main(): a Sunday,
\* the day before a week that spans 31 December and 1 January
StartDay == Ymd2Ord(2024, 12, 29)

\* the day texts given to main()
MainArgs ==
  {WordArg("today"), WordArg("Today"), WordArg("yesterday"), WordArg("mon"),
   NumArg(9, 12, 0, 0)}

\* the records of the remote source: the menus of the Monday of the
\* current week, well-formed and not
LunchRecord(date) ==
  [menu |-> "arroz<br>feijao", date |-> date, meal |-> "A",
   calories |-> <<6, 5, 0>>]
DinnerRecord(date) ==
  [menu |-> "peixe\\/frango", date |-> date, meal |-> "J",
   calories |-> <<7, 0, 0>>]
UnknownMealRecord(date) ==
  [menu |-> "sopa", date |-> date, meal |-> "X", calories |-> <<1>>]
OtherLunchRecord(date) ==
  [menu |-> "sopa", date |-> date, meal |-> "A", calories |-> <<0, 9>>]
BadEscapeRecord(date) ==
  [menu |-> "caf\\xe", date |-> date, meal |-> "A", calories |-> <<1>>]
NoMatchRecord(date) ==
  [menu |-> "sopa", date |-> date, meal |-> "AJ", calories |-> <<>>]

NoResponse == [transport |-> FALSE, records |-> <<>>]
TransportError == [transport |-> TRUE, records |-> <<>>]

ResponsesOf(records, n) ==
  {TransportError} \cup
  {[transport |-> FALSE, records |-> recs] :
     recs \in UNION {[1..k -> records] : k \in 0..n}}

\* the responses the remote source gives main() on a day
MainResponses(now) ==
  LET date == StrftimeDmY(Monday(now))
  IN  ResponsesOf({LunchRecord(date), DinnerRecord(date),
                   UnknownMealRecord(date)}, MaxRecords)

\* the file of a key; a key without a file is not in the domain of cache
FileAt(key) == IF key \in DOMAIN cache THEN cache[key] ELSE NoFile

PutFile(key, file) ==
  [k \in DOMAIN cache \cup {key} |-> IF k = key THEN file ELSE cache[k]]

\* the history of the stores of a week and restaurant: the sets of entries
\* passed to the stores begun and their number, whether one completed, and
\* the entries of the one that completed last
NoStores == [begun |-> 0, passed |-> {}, done |-> FALSE, last |-> <<>>]
StoresOf(wr) == IF wr \in DOMAIN stores THEN stores[wr] ELSE NoStores
PutStores(wr, h) ==
  [k \in DOMAIN stores \cup {wr} |-> IF k = wr THEN h ELSE stores[k]]

\* the week and the restaurant an invocation asks for
WeekOf(r) == <<Monday(r.day), r.restaurant>>

IdleRun ==
  [pc |-> "idle", arg |-> WordArg("today"), restaurant |-> 0, day |-> 0,
   key |-> <<0, 0, 0>>, hit |-> FALSE, entries |-> <<>>, probed |-> "none",
   fetched |-> "none", checkedOn |-> 0, off |-> 0,
   trace |-> <<>>, outcome |-> "", wasStored |-> FALSE, recall |-> FALSE]

\* the end of main(): return 0 ("served"), return 1 ("unavailable",
\* "fetch_empty") or an exception in the handler of __main__ ("error")
Finish(r, outcome) ==
  [r EXCEPT !.pc = "done", !.outcome = outcome, !.entries = <<>>, !.off = 0]

\* parse_args() and the cache key, for a day text of args and a restaurant
\* of restaurants: get_date(parsed.day) raising ends main() in the handler
Start(p, args, restaurants) ==
  /\ run[p].pc = "idle"
  /\ started < MaxRuns
  /\ \E arg \in args, restaurant \in restaurants :
       LET day == get_date(arg, today)
           r0 == [IdleRun EXCEPT !.arg = arg, !.restaurant = restaurant]
       IN  run' = [run EXCEPT ![p] =
                     IF ~day.ok THEN Finish(r0, "error")
                     ELSE [r0 EXCEPT !.pc = "probe", !.day = day.v,
                                     !.key = cache_key(day.v, restaurant)]]
  /\ started' = started + 1
  /\ UNCHANGED <<today, cache, called, stores, pureVars>>

\* an invocation with any day text and restaurant of the model
StartRun(p) == Start(p, MainArgs, 1..MaxRestaurant)

\* an invocation that asks for a day of the current week at restaurant 1
StartSameKey(p) == Start(p, {WordArg("today"), WordArg("mon")}, {1})

\* entries = fetch_entries_cached(key)
Probe(p) ==
  /\ run[p].pc = "probe"
  /\ LET file == FileAt(run[p].key)
         r == fetch_entries_cached(file)
         r1 == [run[p] EXCEPT
                  !.trace = Append(@, "read"),
                  !.probed = IF ~file.exists THEN "absent"
                             ELSE IF OpenAndLoad(file).raised THEN "corrupt"
                             ELSE "valid",
                  !.wasStored = StoresOf(WeekOf(run[p])).done]
     IN  run' = [run EXCEPT ![p] =
                   IF r.raised THEN Finish(r1, "error")
                   ELSE IF r.res.hit
                     THEN [r1 EXCEPT !.pc = "display", !.hit = TRUE,
                                     !.entries = r.res.entries]
                     ELSE [r1 EXCEPT !.pc = "check"]]
  /\ UNCHANGED <<today, cache, started, called, stores, pureVars>>

\* if not is_current_week(day): ... return 1
CheckWeek(p) ==
  /\ run[p].pc = "check"
  /\ LET r1 == [run[p] EXCEPT !.checkedOn = today]
     IN  run' = [run EXCEPT ![p] =
                   IF ~is_current_week(run[p].day, today)
                     THEN Finish(r1, "unavailable")
                     ELSE [r1 EXCEPT !.pc = "fetch"]]
  /\ UNCHANGED <<today, cache, started, called, stores, pureVars>>

\* main() that calls the remote source once more when it returned no entries
Fetch_Retry(p) ==
  /\ run[p].pc = "fetch"
  /\ \E resp \in MainResponses(today) :
       LET r == fetch_entries_http(resp)
           r1 == [run[p] EXCEPT
                    !.trace = Append(@, "fetch"),
                    !.recall = WeekOf(run[p]) \in called,
                    !.fetched = IF r.raised THEN "raised"
                                ELSE IF r.entries = <<>> THEN "empty"
                                ELSE "ok"]
       IN  run' = [run EXCEPT ![p] =
                     IF r.raised THEN Finish(r1, "error")
                     ELSE IF r.entries = <<>> /\ Len(run[p].trace) < 2
                       THEN r1
                     ELSE IF r.entries = <<>> THEN Finish(r1, "fetch_empty")
                     ELSE [r1 EXCEPT !.pc = "store_open",
                                     !.entries = r.entries]]
  /\ called' = called \cup {WeekOf(run[p])}
  /\ UNCHANGED <<today, cache, started, stores, pureVars>>

\* main() that stores whatever the remote source returned, empty or not
Fetch_StoreEmpty(p) ==
  /\ run[p].pc = "fetch"
  /\ \E resp \in MainResponses(today) :
       LET r == fetch_entries_http(resp)
           r1 == [run[p] EXCEPT
                    !.trace = Append(@, "fetch"),
                    !.recall = WeekOf(run[p]) \in called,
                    !.fetched = IF r.raised THEN "raised"
                                ELSE IF r.entries = <<>> THEN "empty"
                                ELSE "ok"]
       IN  run' = [run EXCEPT ![p] =
                     IF r.raised THEN Finish(r1, "error")
                     ELSE [r1 EXCEPT !.pc = "store_open",
                                     !.entries = r.entries]]
  /\ called' = called \cup {WeekOf(run[p])}
  /\ UNCHANGED <<today, cache, started, stores, pureVars>>

\* entries = fetch_entries_http(restaurant); if not entries: ... return 1
\* An exception of fetch_entries_http ends main() in the handler.
Fetch(p) ==
  /\ run[p].pc = "fetch"
  /\ \E resp \in MainResponses(today) :
       LET r == fetch_entries_http(resp)
           r1 == [run[p] EXCEPT
                    !.trace = Append(@, "fetch"),
                    !.recall = WeekOf(run[p]) \in called,
                    !.fetched = IF r.raised THEN "raised"
                                ELSE IF r.entries = <<>> THEN "empty"
                                ELSE "ok"]
       IN  run' = [run EXCEPT ![p] =
                     IF r.raised THEN Finish(r1, "error")
                     ELSE IF r.entries = <<>> THEN Finish(r1, "fetch_empty")
                     ELSE [r1 EXCEPT !.pc = "store_open",
                                     !.entries = r.entries]]
  /\ called' = called \cup {WeekOf(run[p])}
  /\ UNCHANGED <<today, cache, started, stores, pureVars>>

\* store_entries_cache: open_cache(key, "wb")
StoreOpen(p) ==
  /\ run[p].pc = "store_open"
  /\ cache' = PutFile(run[p].key, open_cache_wb(FileAt(run[p].key)))
  /\ run' = [run EXCEPT ![p].pc = "store_write", ![p].off = 0,
                        ![p].trace = Append(@, "write")]
  /\ stores' = PutStores(WeekOf(run[p]),
                 [StoresOf(WeekOf(run[p])) EXCEPT
                    !.begun = @ + 1, !.passed = @ \cup {run[p].entries}])
  /\ UNCHANGED <<today, started, called, pureVars>>

\* store_entries_cache: pickle.dump fills the buffer of the file, which
\* writes a chunk at the offset of this process when it is full
StoreWrite(p) ==
  /\ run[p].pc = "store_write"
  /\ run[p].off + 1 < NumChunks(run[p].entries)
  /\ cache' = PutFile(run[p].key,
                      WriteCell(FileAt(run[p].key), run[p].off + 1,
                                PickleChunk(run[p].entries, run[p].off + 1)))
  /\ run' = [run EXCEPT ![p].off = @ + 1]
  /\ UNCHANGED <<today, started, called, stores, pureVars>>

\* store_entries_cache that closes the file without writing what is left
\* in the buffer
StoreClose_NoFlush(p) ==
  /\ run[p].pc = "store_write"
  /\ run[p].off + 1 = NumChunks(run[p].entries)
  /\ run' = [run EXCEPT ![p].pc = "display", ![p].off = @ + 1]
  /\ stores' = PutStores(WeekOf(run[p]),
                 [StoresOf(WeekOf(run[p])) EXCEPT
                    !.done = TRUE, !.last = run[p].entries])
  /\ UNCHANGED <<today, cache, started, called, pureVars>>

\* store_entries_cache: leaving the with block closes the file, which
\* writes the last chunk
StoreClose(p) ==
  /\ run[p].pc = "store_write"
  /\ run[p].off + 1 = NumChunks(run[p].entries)
  /\ cache' = PutFile(run[p].key,
                      WriteCell(FileAt(run[p].key), run[p].off + 1,
                                PickleChunk(run[p].entries, run[p].off + 1)))
  /\ run' = [run EXCEPT ![p].pc = "display", ![p].off = @ + 1]
  /\ stores' = PutStores(WeekOf(run[p]),
                 [StoresOf(WeekOf(run[p])) EXCEPT
                    !.done = TRUE, !.last = run[p].entries])
  /\ UNCHANGED <<today, started, called, pureVars>>

\* display_pretty(entries, ...) with the default options (both meals of the
\* day): entries[f"{date}-lunch"] and entries[f"{date}-dinner"] raise
\* KeyError when the entries lack the day, which ends main() in the handler
Display(p) ==
  /\ run[p].pc = "display"
  /\ LET date == StrftimeDmY(run[p].day)
     IN  run' = [run EXCEPT ![p] =
                   IF {<<date, "lunch">>, <<date, "dinner">>}
                        \subseteq KeysOf(run[p].entries)
                     THEN Finish(run[p], "served")
                     ELSE Finish(run[p], "error")]
  /\ UNCHANGED <<today, cache, started, called, stores, pureVars>>

\* sys.exit(main()): the process ends; the next invocation starts afresh
Exit(p) ==
  /\ run[p].pc = "done"
  /\ run' = [run EXCEPT ![p] = IdleRun]
  /\ UNCHANGED <<today, cache, started, called, stores, pureVars>>

\* a day passes
Tick ==
  /\ today < StartDay + MaxTicks
  /\ today' = today + 1
  /\ UNCHANGED <<cache, run, started, called, stores, pureVars>>

\* the cache files there may be before the first invocation: none, or a
\* file that is no pickle at the key of restaurant 1 and the first week or
\* the next
InitCaches ==
  {<<>>} \cup
  {[k \in {cache_key(d, 1)} |-> CorruptFile] : d \in {StartDay, StartDay + 1}}

InitPure ==
  /\ week = get_week(today)
  /\ dateArg = WordArg("today")
  /\ dateOut = get_date(WordArg("today"), today)
  /\ response = NoResponse
  /\ fetchOut = Returned(<<>>)

InitMain(procs, day) ==
  /\ today = day
  /\ cache \in InitCaches
  /\ run = [p \in procs |-> IdleRun]
  /\ started = 0
  /\ called = {}
  /\ stores = <<>>
  /\ InitPure

\* invocations of main() one after the other
Init == InitMain({1}, StartDay)

\* invocations of main() by processes that run concurrently, all for the
\* same cache key, on the Tuesday after StartDay
InitConc == InitMain(1..NumProcs, StartDay + 2)

Next ==
  \/ \E p \in DOMAIN run :
       \/ StartRun(p)
       \/ Probe(p)
       \/ CheckWeek(p)
       \/ Fetch(p)
       \/ StoreOpen(p)
       \/ StoreWrite(p)
       \/ StoreClose(p)
       \/ Display(p)
       \/ Exit(p)
  \/ Tick

NextConc ==
  \E p \in DOMAIN run :
       \/ StartSameKey(p)
       \/ Probe(p)
       \/ CheckWeek(p)
       \/ Fetch(p)
       \/ StoreOpen(p)
       \/ StoreWrite(p)
       \/ StoreClose(p)
       \/ Display(p)
       \/ Exit(p)

Spec == Init /\ [][Next]_vars

SpecConc == InitConc /\ [][NextConc]_vars

----------------------------------------------------------------------------
(* The specifications of the pure functions                                *)

\* the dates of the date specifications
Dates == Ymd2Ord(FirstYear, 1, 1) .. (Ymd2Ord(FirstYear + NumYears, 1, 1) - 1)

\* the day texts of the date specification
DateArgs ==
  {WordArg(t) : t \in
     {"today", "Today", "TODAY", "tomorrow", "Tomorrow", "yesterday",
      "YESTERDAY", "mon", "tue", "wed", "thu", "fri", "sat", "sun", "Mon",
      "FRI", "Sun", "monday", "tuesday", "wednesday", "thursday", "friday",
      "saturday", "sunday", "Monday", "FRIDAY", "Sunday", "someday"}}
  \cup {NumArg(29, 2, 0, 0), NumArg(31, 12, 0, 0), NumArg(1, 2, 24, 2),
        NumArg(1, 1, 99, 2), NumArg(1, 2, 2024, 4), NumArg(31, 4, 2023, 4)}

NoMain ==
  /\ cache = <<>>
  /\ run = <<>>
  /\ started = 0
  /\ called = {}
  /\ stores = <<>>

mainVars == <<cache, run, started, called, stores>>

InitDate == today \in Dates /\ InitPure /\ NoMain

\* get_date(day) for a day text
Resolve ==
  /\ \E arg \in DateArgs :
       /\ dateArg' = arg
       /\ dateOut' = get_date(arg, today)
  /\ UNCHANGED <<today, week, response, fetchOut, mainVars>>

\* a day passes: get_week(today) and get_date of "today", the default of
\* the --day option, on the next day
NextDay ==
  /\ today + 1 \in Dates
  /\ today' = today + 1
  /\ week' = get_week(today')
  /\ dateArg' = WordArg("today")
  /\ dateOut' = get_date(WordArg("today"), today')
  /\ UNCHANGED <<response, fetchOut, mainVars>>

NextDate == Resolve \/ NextDay

SpecDate == InitDate /\ [][NextDate]_vars

\* get_week(today) day after day
SpecWeek == InitDate /\ [][NextDay]_vars

\* the responses of the fetch specification
FetchResponses ==
  LET date == StrftimeDmY(Monday(StartDay))
  IN  ResponsesOf({LunchRecord(date), DinnerRecord(date),
                   OtherLunchRecord(date), UnknownMealRecord(date),
                   BadEscapeRecord(date), NoMatchRecord(date)},
                  MaxFetchRecords)

InitFetch == today = StartDay /\ InitPure /\ NoMain

\* fetch_entries_http(restaurant) on a response
Receive ==
  /\ \E resp \in FetchResponses :
       /\ response' = resp
       /\ fetchOut' = fetch_entries_http(resp)
  /\ UNCHANGED <<today, week, dateArg, dateOut, mainVars>>

SpecFetch == InitFetch /\ [][Receive]_vars

----------------------------------------------------------------------------
(* The claims                                                              *)

Terminated == \A p \in DOMAIN run : run[p].pc \in {"idle", "done"}

IsPrefix(a, b) == Len(a) <= Len(b) /\ SubSeq(b, 1, Len(a)) = a

\* C1: a request whose cache load missed and whose date is not in the week
\* of the day is_current_week was asked ends with the "unavailable" outcome,
\* having made no remote call and no store.
C1_StaleMissIsUnavailable ==
  \A p \in DOMAIN run :
    (/\ run[p].checkedOn # 0
     /\ ~run[p].hit
     /\ Monday(run[p].day) # Monday(run[p].checkedOn))
    => /\ run[p].pc = "done"
       /\ run[p].outcome = "unavailable"
       /\ run[p].trace = <<"read">>

C1_Witness ==
  \E p \in DOMAIN run :
    /\ run[p].pc = "done"
    /\ run[p].outcome = "unavailable"
    /\ run[p].probed = "absent"
    /\ run[p].arg = NumArg(9, 12, 0, 0)

\* C2, the files: between stores, a cache file is one that was there before
\* the first request or the whole pickle of a non-empty dict.
C2_NoEmptyOrPartialFile ==
  (\A p \in DOMAIN run : run[p].pc # "store_write")
  => \A k \in DOMAIN cache :
       \/ cache[k] = CorruptFile
       \/ /\ ~OpenAndLoad(cache[k]).raised
          /\ OpenAndLoad(cache[k]).entries # <<>>
          /\ Len(cache[k].cells) = NumChunks(OpenAndLoad(cache[k]).entries)

\* C2, the writes: a step changes the cache only on behalf of a request
\* whose remote fetch returned, without raising, a non-empty dict.
C2_OnlyFetchedEntriesWritten ==
  cache' # cache
  => \E p \in DOMAIN run :
       /\ run[p].pc \in {"store_open", "store_write"}
       /\ run[p].fetched = "ok"
       /\ run[p].entries # <<>>
       /\ \A k \in DOMAIN cache' : k # run[p].key => FileAt(k) = cache'[k]

\* C2: the cache is written only by a request whose remote fetch completed
\* without error and returned a non-empty set; a request whose fetch returns
\* an empty set or raises leaves every cache entry unchanged, and no cached
\* entry is ever empty or partial.
C2_CacheWrittenOnlyAfterGoodFetch ==
  [](C2_NoEmptyOrPartialFile) /\ [][C2_OnlyFetchedEntriesWritten]_vars

C2_Witness ==
  /\ \E p \in DOMAIN run :
       /\ run[p].pc = "done"
       /\ run[p].fetched \in {"empty", "raised"}
       /\ ~FileAt(run[p].key).exists
  /\ \E k \in DOMAIN cache : cache[k] # CorruptFile

\* C3, as amended: once a request has fetched and stored the menu of a
\* restaurant and week, every later request for a date of that week and
\* that restaurant hits the cache, is served the stored entries and makes no
\* remote call (requests whose fetch failed or returned nothing store
\* nothing, and the remote source is called again for their key).
C3_StoredWeekServedFromCache ==
  \A p \in DOMAIN run :
    run[p].wasStored
    => /\ run[p].hit
       /\ run[p].trace = <<"read">>
       /\ run[p].pc \in {"display", "done"}
       /\ run[p].pc = "display"
            => run[p].entries = StoresOf(WeekOf(run[p])).last
       /\ StoresOf(WeekOf(run[p])).begun = 1

C3_Witness ==
  \E p \in DOMAIN run :
    /\ run[p].wasStored
    /\ run[p].pc = "done"
    /\ run[p].outcome = "served"
    /\ today = StartDay + 3

\* C3, as claimed: the remote source is called exactly once per (restaurant,
\* week): no remote call is made for a key a remote call was made for, and
\* a stored week is served from the cache.
C3_RemoteCalledOncePerKey ==
  /\ C3_StoredWeekServedFromCache
  /\ \A p \in DOMAIN run : ~run[p].recall

\* C4: a cache load that fails is reported as absent and never raised: with
\* a corrupt file at the key as with no file there, the request goes on to
\* the miss branch and ends as the week check and the remote fetch decide.
C4_CorruptFileIsAMiss ==
  \A p \in DOMAIN run :
    run[p].probed \in {"absent", "corrupt"}
    => /\ ~run[p].hit
       /\ run[p].pc # "done" => run[p].pc \in
            {"check", "fetch", "store_open", "store_write", "display"}
       /\ run[p].pc = "done" =>
            /\ run[p].checkedOn # 0
            /\ IF Monday(run[p].day) # Monday(run[p].checkedOn)
                 THEN run[p].outcome = "unavailable"
                 ELSE CASE run[p].fetched = "raised" -> run[p].outcome = "error"
                        [] run[p].fetched = "empty" ->
                             run[p].outcome = "fetch_empty"
                        [] run[p].fetched = "ok" ->
                             run[p].outcome \in {"served", "error"}
                        [] OTHER -> FALSE

C4_Witness ==
  \E p \in DOMAIN run :
    /\ run[p].probed = "corrupt"
    /\ run[p].pc = "done"
    /\ run[p].outcome = "served"

\* the tuples the record pattern finds in the response of the state
FoundTuples == FindAll(response.records, 1)

\* C5, as amended: on a response it received, fetch_entries_http raises
\* exactly when a tuple the record pattern finds has a meal code other than
\* "A" and "J" or a menu text that does not decode; otherwise it returns a
\* dict, possibly empty, with no more entries than the response has records.
C5_FetchRaisesOnUnknownMealCode ==
  ~response.transport
  => /\ fetchOut.raised <=>
          \E i \in 1..Len(FoundTuples) :
            \/ FoundTuples[i][3] \notin {"A", "J"}
            \/ FoundTuples[i][1] = "caf\\xe"
     /\ ~fetchOut.raised =>
          /\ Len(fetchOut.entries) <= Len(FoundTuples)
          /\ Len(FoundTuples) <= Len(response.records)
          /\ \A i \in 1..Len(fetchOut.entries) :
               fetchOut.entries[i].key[2] \in {"lunch", "dinner"}

C5_Witness ==
  /\ ~response.transport
  /\ fetchOut.raised
  /\ \E i \in 1..Len(response.records) : response.records[i].meal = "X"
  /\ \A i \in 1..Len(response.records) : response.records[i].menu # "caf\\xe"

\* C5, as claimed: fetch_entries_http never fails because of the content of
\* the response; a record with a meal code other than "A" and "J" only
\* reduces the number of entries.
C5_FetchNeverFailsOnContent == ~response.transport => ~fetchOut.raised

\* C6: get_date recognises "today", "tomorrow" and "yesterday" in every
\* capitalisation, giving the date it gives for the lower-case keyword.
C6_KeywordsCaseInsensitive ==
  Lower(dateArg.text) \in Keywords
  => dateOut = Some(CASE Lower(dateArg.text) = "today" -> today
                      [] Lower(dateArg.text) = "tomorrow" -> today + 1
                      [] Lower(dateArg.text) = "yesterday" -> today - 1)

\* C7: get_week gives two dates the same bucket exactly when they lie in the
\* same Monday-to-Sunday week, also across a year boundary, and no bucket is
\* a week 00.
C7_BucketIffSameWeek ==
  /\ week[2] # 0
  /\ week[2] \in 1..53
  /\ \A d \in Dates : (get_week(d) = week) <=> (Monday(d) = Monday(today))

\* the case of C7: a day of the first days of January, before the first
\* Monday, whose bucket is that of 31 December
C7_Witness ==
  /\ StrftimeW(today) = 0
  /\ week[1] = YearOf(today) - 1
  /\ week[2] >= 52
  /\ today - 1 \in Dates

\* C8: get_date resolves a weekday name, abbreviated or full, to that
\* weekday of the week of the invocation date, so that the date is in the
\* current week and has the cache key of today, at year boundaries too.
C8_WeekdayInCurrentWeek ==
  LET name == Lower(dateArg.text)
      i == IF IndexIn(AbbrNames, name) > 0 THEN IndexIn(AbbrNames, name)
           ELSE IndexIn(FullNames, name)
  IN  i > 0
      => /\ dateOut.ok
         /\ Weekday(dateOut.v) = i - 1
         /\ Monday(dateOut.v) = Monday(today)
         /\ is_current_week(dateOut.v, today)
         /\ \A r \in 1..MaxRestaurant :
              cache_key(dateOut.v, r) = cache_key(today, r)

\* the case of C8: a weekday asked in week 00 of January that lies in
\* December of the year before
C8_Witness ==
  /\ IndexIn(AbbrNames, Lower(dateArg.text)) > 0
  /\ StrftimeW(today) = 0
  /\ dateOut.ok
  /\ YearOf(dateOut.v) = YearOf(today) - 1

\* the file of a week and restaurant
FileOf(wr) == FileAt(cache_key(wr[1], wr[2]))

\* C9, as amended: when the concurrent stores of a key were all passed the
\* same entries, the cache holds the pickle of those entries once all the
\* processes have terminated, and a later load of the key returns them.
C9_EqualStoresLeaveTheirEntries ==
  Terminated
  => \A wr \in DOMAIN stores :
       (stores[wr].done /\ Cardinality(stores[wr].passed) = 1)
       => /\ OpenAndLoad(FileOf(wr)) = Returned(stores[wr].last)
          /\ stores[wr].passed = {stores[wr].last}
          /\ fetch_entries_cached(FileOf(wr)).res = Hit(stores[wr].last)

C9_Witness ==
  /\ Terminated
  /\ \E wr \in DOMAIN stores :
       /\ stores[wr].begun >= 2
       /\ stores[wr].done
       /\ Cardinality(stores[wr].passed) = 1
       /\ Len(stores[wr].last) = 2

\* C9, as claimed: once the processes have terminated, the cache at the key
\* holds exactly the entries passed to the store that completed last, and a
\* later load of the key returns them.
C9_LastStoreWins ==
  Terminated
  => \A wr \in DOMAIN stores :
       stores[wr].done
       => OpenAndLoad(FileOf(wr)) = Returned(stores[wr].last)

\* C10, the order: an invocation reads the cache, then calls the remote
\* source, then writes the cache, each at most once; it calls the remote
\* source only after a miss and writes only what the call returned.
C10_ReadFetchWriteInOrder ==
  \A p \in DOMAIN run :
    /\ IsPrefix(run[p].trace, <<"read", "fetch", "write">>)
    /\ Len(run[p].trace) >= 2 => ~run[p].hit
    /\ Len(run[p].trace) = 3 => run[p].fetched = "ok"
    /\ run[p].pc = "done" /\ run[p].outcome \in {"fetch_empty", "unavailable"}
         => Len(run[p].trace) < 3

\* C10, the end: an invocation that has ended reads, fetches and writes no
\* more.
C10_NothingAfterTheEnd ==
  \A p \in DOMAIN run :
    run[p].pc = "done"
    => /\ cache' = cache
       /\ called' = called
       /\ run'[p] \in {run[p], IdleRun}

\* C10: an invocation of main() performs at most one cache read, one remote
\* call and one cache write, in that order, and none after it has ended.
C10_AtMostOneReadFetchWrite ==
  [](C10_ReadFetchWriteInOrder) /\ [][C10_NothingAfterTheEnd]_vars

C10_Witness ==
  \E p \in DOMAIN run :
    /\ run[p].pc = "done"
    /\ run[p].trace = <<"read", "fetch", "write">>

====
